---------------------------- MODULE Spec2Model ----------------------------
(***************************************************************************)
(* gogcli, internal/markdown: Parse(content, baseIndex) walks the goldmark *)
(* syntax tree of a markdown text and produces the flattened plain text    *)
(* and the Google Docs formatting requests addressed by index ranges.      *)
(*                                                                         *)
(* The markdown parser (goldmark) is a library: the model starts from the  *)
(* tree it returns.  A tree is a sequence of nodes in pre-order, each node *)
(* naming its parent (0 for the Document root).  Text is a sequence of     *)
(* UTF-8 bytes, as in the []byte source and the bytes.Buffer of the code.  *)
(***************************************************************************)
EXTENDS Integers, Sequences, FiniteSets, TLC

(***************************************************************************)
(* Bounds of the model.                                                    *)
(***************************************************************************)
MaxBase == 2      \* baseIndex ranges over 1..MaxBase
MaxBlocks == 2    \* generated documents hold up to MaxBlocks blocks

(***************************************************************************)
(* Sequence helpers.                                                       *)
(***************************************************************************)
RECURSIVE Rep(_, _)
Rep(s, k) == IF k = 0 THEN <<>> ELSE s \o Rep(s, k - 1)

NL == <<10>>       \* "\n"
SP == <<32>>       \* " "

(***************************************************************************)
(* Syntax trees as goldmark builds them.                                   *)
(*   kind    : the node type the walker switches on                        *)
(*   parent  : index of the parent node, 0 for the root                    *)
(*   level   : Heading.Level, Emphasis.Level                               *)
(*   ordered : List.IsOrdered()                                            *)
(*   val     : Text: Segment.Value(source); AutoLink: URL(source);         *)
(*             Link, Image: Destination; code blocks: the bytes of Lines() *)
(*   brk     : Text: "soft" (SoftLineBreak), "hard" (HardLineBreak); the   *)
(*             parser sets at most one of the two flags on a text node     *)
(***************************************************************************)
Node(kind, level, ordered, val, brk) ==
    [kind |-> kind, parent |-> 0, level |-> level, ordered |-> ordered,
     val |-> val, brk |-> brk]

\* A forest placed after k nodes, its top-level nodes attached to node root.
Shift(forest, k, root) ==
    [i \in 1..Len(forest) |->
        [forest[i] EXCEPT !.parent = IF @ = 0 THEN root ELSE @ + k]]

RECURSIVE Forest(_)
Forest(trees) ==
    IF trees = <<>> THEN <<>>
    ELSE LET rest == Forest(Tail(trees))
         IN  Head(trees) \o Shift(rest, Len(Head(trees)), 0)

Tree(node, kids) == <<node>> \o Shift(Forest(kids), 1, 1)

Document(kids)        == Tree(Node("Document", 0, FALSE, <<>>, "none"), kids)
Heading(level, kids)  == Tree(Node("Heading", level, FALSE, <<>>, "none"), kids)
Paragraph(kids)       == Tree(Node("Paragraph", 0, FALSE, <<>>, "none"), kids)
TextBlock(kids)       == Tree(Node("TextBlock", 0, FALSE, <<>>, "none"), kids)
List(ordered, kids)   == Tree(Node("List", 0, ordered, <<>>, "none"), kids)
ListItem(kids)        == Tree(Node("ListItem", 0, FALSE, <<>>, "none"), kids)
Blockquote(kids)      == Tree(Node("Blockquote", 0, FALSE, <<>>, "none"), kids)
Emphasis(level, kids) == Tree(Node("Emphasis", level, FALSE, <<>>, "none"), kids)
Strikethrough(kids)   == Tree(Node("Strikethrough", 0, FALSE, <<>>, "none"), kids)
Link(dest, kids)      == Tree(Node("Link", 0, FALSE, dest, "none"), kids)
Image(dest, kids)     == Tree(Node("Image", 0, FALSE, dest, "none"), kids)
CodeSpan(kids)        == Tree(Node("CodeSpan", 0, FALSE, <<>>, "none"), kids)
Text(val)             == <<Node("Text", 0, FALSE, val, "none")>>
TextSoft(val)         == <<Node("Text", 0, FALSE, val, "soft")>>
TextHard(val)         == <<Node("Text", 0, FALSE, val, "hard")>>
AutoLink(url)         == <<Node("AutoLink", 0, FALSE, url, "none")>>
FencedCodeBlock(val)  == <<Node("FencedCodeBlock", 0, FALSE, val, "none")>>
CodeBlock(val)        == <<Node("CodeBlock", 0, FALSE, val, "none")>>
ThematicBreak         == <<Node("ThematicBreak", 0, FALSE, <<>>, "none")>>
HTMLBlock             == <<Node("HTMLBlock", 0, FALSE, <<>>, "none")>>
RawHTML               == <<Node("RawHTML", 0, FALSE, <<>>, "none")>>

\* ast.Node navigation.
Parent(d, i) == d[i].parent
HasChildren(d, i) == i < Len(d) /\ d[i + 1].parent = i
HasNextSibling(d, i) == \E j \in (i + 1)..Len(d) : d[j].parent = d[i].parent
NextSibling(d, i) ==
    CHOOSE j \in (i + 1)..Len(d) :
        /\ d[j].parent = d[i].parent
        /\ \A k \in (i + 1)..(j - 1) : d[k].parent # d[i].parent

RECURSIVE Ancestors(_, _)
Ancestors(d, i) ==
    IF d[i].parent = 0 THEN {} ELSE {d[i].parent} \cup Ancestors(d, d[i].parent)


(***************************************************************************)
(* Input documents.  Each is the tree goldmark returns for the markdown    *)
(* text given with it (CommonMark; the items of a tight list hold          *)
(* TextBlock nodes, the items of a loose list hold Paragraph nodes).       *)
(***************************************************************************)

\* "# Title\n\nBody"
DocTitleBody ==
    Document(<<Heading(1, <<Text(<<84, 105, 116, 108, 101>>)>>), Paragraph(<<Text(<<66, 111, 100, 121>>)>>)>>)

\* "**bold** and *italic*"
DocBoldItalic ==
    Document(<<Paragraph(<<Emphasis(2, <<Text(<<98, 111, 108, 100>>)>>), Text(<<32, 97, 110, 100, 32>>),
                           Emphasis(1, <<Text(<<105, 116, 97, 108, 105, 99>>)>>)>>)>>)

\* "**a *b* c**"
DocNestedEmphasis ==
    Document(<<Paragraph(<<Emphasis(2, <<Text(<<97, 32>>), Emphasis(1, <<Text(<<98>>)>>),
                                         Text(<<32, 99>>)>>)>>)>>)

\* "- Top level\n  - Sub-bullet\n    - Sub-sub-bullet\n- Back to top"
DocNestedBullets ==
    Document(<<List(FALSE, <<
        ListItem(<<TextBlock(<<Text(<<84, 111, 112, 32, 108, 101, 118, 101, 108>>)>>),
            List(FALSE, <<
                ListItem(<<TextBlock(<<Text(<<83, 117, 98, 45, 98, 117, 108, 108, 101, 116>>)>>),
                    List(FALSE, <<
                        ListItem(<<TextBlock(<<Text(<<83, 117, 98, 45, 115, 117, 98, 45, 98, 117, 108, 108, 101, 116>>)>>)>>)>>)>>)>>)>>),
        ListItem(<<TextBlock(<<Text(<<66, 97, 99, 107, 32, 116, 111, 32, 116, 111, 112>>)>>)>>)>>)>>)

\* "1. First\n   1. Nested first\n   2. Nested second\n2. Second"
DocNestedOrderedList ==
    Document(<<List(TRUE, <<
        ListItem(<<TextBlock(<<Text(<<70, 105, 114, 115, 116>>)>>),
            List(TRUE, <<
                ListItem(<<TextBlock(<<Text(<<78, 101, 115, 116, 101, 100, 32, 102, 105, 114, 115, 116>>)>>)>>),
                ListItem(<<TextBlock(<<Text(<<78, 101, 115, 116, 101, 100, 32, 115, 101, 99, 111, 110, 100>>)>>)>>)>>)>>),
        ListItem(<<TextBlock(<<Text(<<83, 101, 99, 111, 110, 100>>)>>)>>)>>)>>)

\* "- Unordered top\n  1. Ordered nested\n  2. Another ordered\n- Back to unordered"
DocMixedNestedLists ==
    Document(<<List(FALSE, <<
        ListItem(<<TextBlock(<<Text(<<85, 110, 111, 114, 100, 101, 114, 101, 100, 32, 116, 111, 112>>)>>),
            List(TRUE, <<
                ListItem(<<TextBlock(<<Text(<<79, 114, 100, 101, 114, 101, 100, 32, 110, 101, 115, 116, 101, 100>>)>>)>>),
                ListItem(<<TextBlock(<<Text(<<65, 110, 111, 116, 104, 101, 114, 32, 111, 114, 100, 101, 114, 101, 100>>)>>)>>)>>)>>),
        ListItem(<<TextBlock(<<Text(<<66, 97, 99, 107, 32, 116, 111, 32, 117, 110, 111, 114, 100, 101, 114, 101, 100>>)>>)>>)>>)>>)

\* "- Level 1\n  - Level 2\n    - Level 3\n      - Level 4"
DocDeepNesting ==
    Document(<<List(FALSE, <<
        ListItem(<<TextBlock(<<Text(<<76, 101, 118, 101, 108, 32, 49>>)>>),
            List(FALSE, <<
                ListItem(<<TextBlock(<<Text(<<76, 101, 118, 101, 108, 32, 50>>)>>),
                    List(FALSE, <<
                        ListItem(<<TextBlock(<<Text(<<76, 101, 118, 101, 108, 32, 51>>)>>),
                            List(FALSE, <<
                                ListItem(<<TextBlock(<<Text(<<76, 101, 118, 101, 108, 32, 52>>)>>)>>)
                            >>)>>)>>)>>)>>)>>)>>)>>)

\* "1. First\n\n   - Sub\n\n   - Sub2\n\n2. Second"   (loose lists: items hold paragraphs)
DocLooseMixedLists ==
    Document(<<List(TRUE, <<
        ListItem(<<Paragraph(<<Text(<<70, 105, 114, 115, 116>>)>>),
            List(FALSE, <<
                ListItem(<<Paragraph(<<Text(<<83, 117, 98>>)>>)>>),
                ListItem(<<Paragraph(<<Text(<<83, 117, 98, 50>>)>>)>>)>>)>>),
        ListItem(<<Paragraph(<<Text(<<83, 101, 99, 111, 110, 100>>)>>)>>)>>)>>)

\* "> # Title\n>\n> - a\n>\n> - b"   (heading and loose list inside a blockquote)
DocQuotedBlocks ==
    Document(<<Blockquote(<<
        Heading(1, <<Text(<<84, 105, 116, 108, 101>>)>>),
        List(FALSE, <<ListItem(<<Paragraph(<<Text(<<97>>)>>)>>),
                      ListItem(<<Paragraph(<<Text(<<98>>)>>)>>)>>)>>)>>)

\* "- a\n\n  ```\n  x\n  ```\n\n- <http://a>"   (code block and autolink in a loose list)
DocListWithCode ==
    Document(<<List(FALSE, <<
        ListItem(<<Paragraph(<<Text(<<97>>)>>), FencedCodeBlock(<<120, 10>>)>>),
        ListItem(<<Paragraph(<<AutoLink(<<104, 116, 116, 112, 58, 47, 47, 97>>)>>)>>)>>)>>)

\* "**\u00e9\u00e9**"   (two-byte characters, U+00E9)
DocAccents ==
    Document(<<Paragraph(<<Emphasis(2, <<Text(<<195, 169, 195, 169>>)>>)>>)>>)

\* "# ![logo](u)\n\n- ![a](u)\n\n- x\n\n**![b*c*d](u)** [![e ![f](u)](u)](v)"
DocImages ==
    Document(<<
        Heading(1, <<Image(<<117>>, <<Text(<<108, 111, 103, 111>>)>>)>>),
        List(FALSE, <<
            ListItem(<<Paragraph(<<Image(<<117>>, <<Text(<<97>>)>>)>>)>>),
            ListItem(<<Paragraph(<<Text(<<120>>)>>)>>)>>),
        Paragraph(<<
            Emphasis(2, <<Image(<<117>>, <<Text(<<98>>),
                                          Emphasis(1, <<Text(<<99>>)>>),
                                          Text(<<100>>)>>)>>),
            Text(<<32>>),
            Link(<<118>>, <<Image(<<117>>, <<Text(<<101, 32>>),
                                            Image(<<117>>, <<Text(<<102>>)>>)>>)>>)>>)>>)

\* "# *T* `c`\n\n1. **a** [l](u)\n\n2. ~~s~~"
DocStyledBlocks ==
    Document(<<
        Heading(1, <<Emphasis(1, <<Text(<<84>>)>>), Text(<<32>>),
                     CodeSpan(<<Text(<<99>>)>>)>>),
        List(TRUE, <<
            ListItem(<<Paragraph(<<Emphasis(2, <<Text(<<97>>)>>), Text(<<32>>),
                                   Link(<<117>>, <<Text(<<108>>)>>)>>)>>),
            ListItem(<<Paragraph(<<Strikethrough(<<Text(<<115>>)>>)>>)>>)>>)>>)

\* "**`a`** ~~`b`~~ [`c`](u) *x `\u00e9` y*\n\n```\nf\n```\n\n    g\n"
DocCodeInside ==
    Document(<<
        Paragraph(<<
            Emphasis(2, <<CodeSpan(<<Text(<<97>>)>>)>>), Text(<<32>>),
            Strikethrough(<<CodeSpan(<<Text(<<98>>)>>)>>), Text(<<32>>),
            Link(<<117>>, <<CodeSpan(<<Text(<<99>>)>>)>>), Text(<<32>>),
            Emphasis(1, <<Text(<<120, 32>>), CodeSpan(<<Text(<<195, 169>>)>>),
                          Text(<<32, 121>>)>>)>>),
        FencedCodeBlock(<<102, 10>>),
        CodeBlock(<<103, 10>>)>>)

\* "*x\ny* **a\\\nb**\n\n- ~~p\nq~~\n\n  ```\n  f\n  ```\n\n- <http://a>"
\* (text leaves with a soft and with a hard line break under emphasis,
\* bold and strikethrough, beside a code block and an autolink)
DocStyledBreaks ==
    Document(<<
        Paragraph(<<Emphasis(1, <<TextSoft(<<120>>), Text(<<121>>)>>), Text(<<32>>),
                    Emphasis(2, <<TextHard(<<97>>), Text(<<98>>)>>)>>),
        List(FALSE, <<
            ListItem(<<Paragraph(<<Strikethrough(<<TextSoft(<<112>>), Text(<<113>>)>>)>>),
                       FencedCodeBlock(<<102, 10>>)>>),
            ListItem(<<Paragraph(<<AutoLink(<<104, 116, 116, 112, 58, 47, 47, 97>>)>>)>>)>>)>>)

\* "###\n\n*`c`\nb* [~~`d`\ne~~](u)\n\n```\n```\n\n[](u)"
\* (the text between a code span and the end of its line is an empty text
\* leaf that carries the line break)
DocEmptySpans ==
    Document(<<
        Heading(3, <<>>),
        Paragraph(<<Emphasis(1, <<CodeSpan(<<Text(<<99>>)>>), TextSoft(<<>>),
                                  Text(<<98>>)>>),
                    Text(<<32>>),
                    Link(<<117>>, <<Strikethrough(<<CodeSpan(<<Text(<<100>>)>>),
                                                   TextSoft(<<>>), Text(<<101>>)>>)>>)>>),
        FencedCodeBlock(<<>>),
        Paragraph(<<Link(<<117>>, <<>>)>>)>>)

CatalogDocs ==
    {DocStyledBreaks, DocEmptySpans, DocCodeInside, DocStyledBlocks, DocTitleBody, DocBoldItalic, DocNestedEmphasis, DocNestedBullets,
     DocNestedOrderedList, DocMixedNestedLists, DocDeepNesting,
     DocLooseMixedLists, DocQuotedBlocks, DocListWithCode, DocAccents,
     DocImages}

\* Blocks the generated documents are put together from.
Blocks ==
    { Paragraph(<<Text(<<97, 98>>)>>),                                   \* "ab"
      Heading(2, <<Text(<<72>>)>>),                                   \* "## H"
      Heading(3, <<>>),                                            \* "###"
      Paragraph(<<Emphasis(2, <<Text(<<97, 32>>),                         \* "**a **b** c**"
                               Emphasis(2, <<Text(<<98>>)>>), Text(<<32, 99>>)>>)>>),
      Paragraph(<<Strikethrough(<<Text(<<120>>)>>), TextSoft(<<32, 121>>),     \* "~~x~~ y\nz"
                  Text(<<122>>)>>),
      Paragraph(<<TextHard(<<97>>), Text(<<98>>)>>),                      \* "a\\\nb"
      Paragraph(<<Link(<<117>>, <<Emphasis(1, <<Text(<<116>>)>>)>>)>>),     \* "[*t*](u)"
      Paragraph(<<Emphasis(1, <<CodeSpan(<<Text(<<99>>)>>)>>),         \* "*`c`* <http://a>"
                  Text(<<32>>), AutoLink(<<104, 116, 116, 112, 58, 47, 47, 97>>)>>),
      Paragraph(<<Image(<<117>>, <<Text(<<108, 111, 103, 111>>)>>),                     \* "![logo](u)<b>é **éé**"
                  RawHTML, Text(<<195, 169, 32>>), Emphasis(2, <<Text(<<195, 169, 195, 169>>)>>)>>),
      Paragraph(<<Link(<<117>>, <<>>), Text(<<32>>),                \* "[](u) *![](u)*"
                  Emphasis(1, <<Image(<<117>>, <<>>)>>)>>),
      FencedCodeBlock(<<>>),                                       \* "```\n```"
      FencedCodeBlock(<<120, 10>>),                                \* "```\nx\n```"
      CodeBlock(<<121, 10>>),                                      \* "    y"
      ThematicBreak,                                               \* "---"
      HTMLBlock,                                                   \* "<div>\n</div>"
      List(FALSE, <<ListItem(<<TextBlock(<<Text(<<97>>)>>)>>),         \* "- a\n- b"
                    ListItem(<<TextBlock(<<Text(<<98>>)>>)>>)>>),
      List(TRUE, <<ListItem(<<Paragraph(<<Text(<<97>>)>>)>>),          \* "1. a\n\n2. b"
                   ListItem(<<Paragraph(<<Text(<<98>>)>>)>>)>>) }

RECURSIVE BlockSeqs(_)
BlockSeqs(k) ==
    IF k = 0 THEN {<<>>}
    ELSE LET shorter == BlockSeqs(k - 1)
         IN  shorter \cup {Append(s, b) : s \in shorter, b \in Blocks}

GeneratedDocs == {Document(s) : s \in BlockSeqs(MaxBlocks)}

InputDocs == CatalogDocs \cup GeneratedDocs


(***************************************************************************)
(* State of one Parse call.                                                *)
(***************************************************************************)
VARIABLES
    doc,             \* the tree md.Parser().Parse returned
    baseIndex,       \* walker.baseIndex
    buf,             \* walker.buf, the bytes written so far
    requests,        \* walker.requests
    paragraphStart,  \* walker.paragraphStart
    inList,          \* walker.inList
    listOrdered,     \* walker.listOrdered
    n,               \* the node ast.Walk calls the walker on next
    entering,        \* the entering argument of that call
    pc,              \* "walk": in ast.Walk; "ret": after it; "done": returned
    plainText,       \* Result.PlainText, once returned
    visit,           \* history: per node, the cursor when it was entered / left
    reqNode,         \* history: per request, the node whose callback added it
    call,            \* which Parse call the variables above belong to
    suspended,       \* the other Parse calls' variables, while they do not run
    preempted,       \* history: the calls another call ran in the middle of
    gdoc,            \* docsPlainText: its doc argument
    maxBytes,        \* docsPlainText: its maxBytes argument
    out,             \* docsPlainText: buf
    el,              \* docsPlainText: position of the range loop in Body.Content
    dpc,             \* docsPlainText: "range", "done" ("idle": not called)
    text,            \* docsPlainText: the string returned
    cmd,             \* DocsUpdateCmd.Run: the command and what its calls return
    updPc,           \* DocsUpdateCmd.Run: "run", "get", "insert", "batch", "output", "done"
    updContent,      \* DocsUpdateCmd.Run: content
    updRequests,     \* DocsUpdateCmd.Run: requests
    updErr,          \* DocsUpdateCmd.Run: the error returned ("nil": none)
    batches          \* DocsUpdateCmd.Run: the request lists it handed to Documents.BatchUpdate

\* One Parse call: its arguments, its walker, its place in ast.Walk, its result.
parseVars == <<doc, baseIndex, buf, requests, paragraphStart, inList,
               listOrdered, n, entering, pc, plainText, visit, reqNode>>

callVars == <<call, suspended, preempted>>

docsVars == <<gdoc, maxBytes, out, el, dpc, text>>

updVars == <<cmd, updPc, updContent, updRequests, updErr, batches>>

vars == <<parseVars, callVars, docsVars, updVars>>

(***************************************************************************)
(* The requests (google.golang.org/api/docs/v1 Request values): req is    *)
(* the member of docs.Request that is set, fields its Fields mask, style  *)
(* the NamedStyleType, FontFamily or BulletPreset, url the Link.Url, and  *)
(* indentStart the ParagraphStyle.IndentStart, which no request sets.     *)
(***************************************************************************)
Request(req, fields, start, end, style, url) ==
    [req |-> req, fields |-> fields, start |-> start, end |-> end,
     style |-> style, url |-> url, indentStart |-> "nil"]

\* The cursor counted from 1 whatever the base index is.
currentIndexFromOne(base, b) == 1 + Len(b)

currentIndex(base, b) == base + Len(b)

NamedStyle(level) ==
    CASE level = 1 -> "HEADING_1"
      [] level = 2 -> "HEADING_2"
      [] level = 3 -> "HEADING_3"
      [] level = 4 -> "HEADING_4"
      [] level = 5 -> "HEADING_5"
      [] level = 6 -> "HEADING_6"
      [] OTHER -> "HEADING_1"

addHeadingStyle(reqs, start, end, level) ==
    IF start >= end THEN reqs
    ELSE Append(reqs, Request("UpdateParagraphStyle", "namedStyleType",
                              start, end, NamedStyle(level), <<>>))

addBoldStyle(reqs, start, end) ==
    IF start >= end THEN reqs
    ELSE Append(reqs, Request("UpdateTextStyle", "bold", start, end, "", <<>>))

addItalicStyle(reqs, start, end) ==
    IF start >= end THEN reqs
    ELSE Append(reqs, Request("UpdateTextStyle", "italic", start, end, "", <<>>))

addStrikethroughStyle(reqs, start, end) ==
    IF start >= end THEN reqs
    ELSE Append(reqs, Request("UpdateTextStyle", "strikethrough", start, end, "", <<>>))

\* addCodeStyle without its `start >= end` guard.
addCodeStyleUnguarded(reqs, start, end) ==
    Append(reqs, Request("UpdateTextStyle", "weightedFontFamily",
                         start, end, "Courier New", <<>>))

addCodeStyle(reqs, start, end) ==
    IF start >= end THEN reqs
    ELSE Append(reqs, Request("UpdateTextStyle", "weightedFontFamily",
                              start, end, "Courier New", <<>>))

addLinkStyle(reqs, start, end, url) ==
    IF start >= end \/ url = <<>> THEN reqs
    ELSE Append(reqs, Request("UpdateTextStyle", "link", start, end, "", url))

BulletPreset(ordered) ==
    IF ordered THEN "NUMBERED_DECIMAL_ALPHA_ROMAN" ELSE "BULLET_DISC_CIRCLE_SQUARE"

\* The bullet request put in front of the requests made so far.
addBulletRequestFirst(reqs, start, end, ordered) ==
    IF start >= end THEN reqs
    ELSE <<Request("CreateParagraphBullets", "", start, end,
                   BulletPreset(ordered), <<>>)>> \o reqs

addBulletRequest(reqs, start, end, ordered) ==
    IF start >= end THEN reqs
    ELSE Append(reqs, Request("CreateParagraphBullets", "", start, end,
                              BulletPreset(ordered), <<>>))

\* The loop step with every Emphasis level taken for bold as well.
StyleOfAncestorBoldAtAnyLevel(reqs, node, start, end) ==
    CASE node.kind = "Emphasis" /\ node.level = 1 ->
            addBoldStyle(addItalicStyle(reqs, start, end), start, end)
      [] node.kind = "Emphasis" /\ node.level >= 2 -> addBoldStyle(reqs, start, end)
      [] node.kind = "Strikethrough" -> addStrikethroughStyle(reqs, start, end)
      [] OTHER -> reqs

\* One step of the loop of applyInlineFormatting at ancestor p.
StyleOfAncestor(reqs, node, start, end) ==
    CASE node.kind = "Emphasis" /\ node.level = 1 -> addItalicStyle(reqs, start, end)
      [] node.kind = "Emphasis" /\ node.level >= 2 -> addBoldStyle(reqs, start, end)
      [] node.kind = "Strikethrough" -> addStrikethroughStyle(reqs, start, end)
      [] OTHER -> reqs

\* The loop `for parent != nil`: requests added from the leaf upward.
RECURSIVE AncestorStyles(_, _, _, _, _)
AncestorStyles(reqs, d, p, start, end) ==
    IF p = 0 THEN reqs
    ELSE AncestorStyles(StyleOfAncestor(reqs, d[p], start, end),
                        d, d[p].parent, start, end)

\* linkURL after the loop: every Link ancestor assigns it on the way up.
RECURSIVE LinkURL(_, _, _)
LinkURL(d, p, url) ==
    IF p = 0 THEN url
    ELSE LinkURL(d, d[p].parent, IF d[p].kind = "Link" THEN d[p].val ELSE url)

applyInlineFormatting(reqs, d, i, start, end) ==
    IF start >= end THEN reqs
    ELSE LET styled == AncestorStyles(reqs, d, d[i].parent, start, end)
             linkURL == LinkURL(d, d[i].parent, <<>>)
         IN  IF linkURL # <<>> THEN addLinkStyle(styled, start, end, linkURL)
             ELSE styled

\* The bytes of the direct *ast.Text children of node i, in order.
RECURSIVE ChildText(_, _, _)
ChildText(d, i, j) ==
    IF j > Len(d) THEN <<>>
    ELSE (IF d[j].parent = i /\ d[j].kind = "Text" THEN d[j].val ELSE <<>>)
         \o ChildText(d, i, j + 1)

RuleWidth == 39
RuleGlyph == <<226, 148, 128>>    \* U+2500 in UTF-8
ThematicBreakLine == Rep(RuleGlyph, RuleWidth) \o NL

(***************************************************************************)
(* docsPlainText (the docs commands): the text of a Google Docs document. *)
(* A docs.Document is nil, or has a nil Body, or has Body.Content, a list *)
(* of docs.StructuralElement values: nil, or with Paragraph, Table or      *)
(* TableOfContents set, or with none of them (a section break).  A        *)
(* paragraph holds ParagraphElements, with or without a TextRun; a table  *)
(* holds rows of cells and a cell holds StructuralElements again.          *)
(***************************************************************************)
MaxElements == 2
MaxLimit == 5

TAB == <<9>>

TextRun(content) == [textRun |-> TRUE, content |-> content]
NoTextRun == [textRun |-> FALSE, content |-> <<>>]

Element(kind, elements, rows, content) ==
    [kind |-> kind, elements |-> elements, rows |-> rows, content |-> content]

ElNil == Element("nil", <<>>, <<>>, <<>>)
ElSectionBreak == Element("SectionBreak", <<>>, <<>>, <<>>)
ElParagraph(elements) == Element("Paragraph", elements, <<>>, <<>>)
ElTable(rows) == Element("Table", <<>>, rows, <<>>)
ElTableOfContents(content) == Element("TableOfContents", <<>>, <<>>, content)

\* A table cell holding one paragraph of one text run.
Cell(content) == <<ElParagraph(<<TextRun(content)>>)>>

\* 2 rows by 2 cells with contents a, b, c, d.
Table2x2 ==
    ElTable(<< <<Cell(<<97>>), Cell(<<98>>)>>,
               <<Cell(<<99>>), Cell(<<100>>)>> >>)

DocsShapes ==
    { ElParagraph(<<TextRun(<<97, 10>>)>>),
      ElParagraph(<<TextRun(<<195, 169>>), NoTextRun, TextRun(<<98, 10>>)>>),
      Table2x2,
      ElTable(<< << <<>>,
                    <<ElParagraph(<<TextRun(<<120, 10>>)>>),
                      ElParagraph(<<TextRun(<<121, 10>>)>>)>>,
                    <<ElTable(<< <<Cell(<<112>>)>>, <<Cell(<<113>>)>> >>)>> >> >>),
      ElTable(<< <<>>, <<Cell(<<195, 169, 10>>)>>, <<>> >>),
      ElTable(<<>>),
      ElTableOfContents(<<ElParagraph(<<TextRun(<<116, 10>>)>>), ElNil>>),
      ElSectionBreak,
      ElNil }

Contents(k) ==
    UNION {[1..len -> DocsShapes] : len \in 0..k}

DocsDocument(isNil, bodyNil, content) ==
    [nil |-> isNil, bodyNil |-> bodyNil, content |-> content]

DocsDocuments ==
    {DocsDocument(TRUE, TRUE, <<>>), DocsDocument(FALSE, TRUE, <<>>)}
    \cup {DocsDocument(FALSE, FALSE, c) : c \in Contents(MaxElements)}

\* appendLimited: the buffer afterwards and the value returned.
appendLimited(b, max, s) ==
    IF max <= 0 THEN [buf |-> b \o s, ok |-> TRUE]
    ELSE LET remaining == max - Len(b) IN
         IF remaining <= 0 THEN [buf |-> b, ok |-> FALSE]
         ELSE IF Len(s) > remaining
              THEN [buf |-> b \o SubSeq(s, 1, remaining), ok |-> FALSE]
              ELSE [buf |-> b \o s, ok |-> TRUE]

\* What is written before the row / the cell of (zero-based) index idx.
\* A tab in front of the first cell of a row as well.
CellSeparatorBeforeEveryCell(cellIdx) == TAB

RowSeparator(rowIdx) == IF rowIdx > 0 THEN NL ELSE <<>>
CellSeparator(cellIdx) == IF cellIdx > 0 THEN TAB ELSE <<>>

RECURSIVE appendDocsElementText(_, _, _)
RECURSIVE appendTextRuns(_, _, _, _)
RECURSIVE appendContent(_, _, _, _)
RECURSIVE appendCells(_, _, _, _)
RECURSIVE appendRows(_, _, _, _)

\* for _, p := range el.Paragraph.Elements, from the i-th on; st is the
\* buffer and whether the function is still running (it has not returned
\* false).
appendTextRuns(st, max, elements, i) ==
    IF ~st.ok \/ i > Len(elements) THEN st
    ELSE IF ~elements[i].textRun
         THEN appendTextRuns(st, max, elements, i + 1)
         ELSE appendTextRuns(appendLimited(st.buf, max, elements[i].content),
                             max, elements, i + 1)

\* for _, content := range cell.Content (or TableOfContents.Content)
appendContent(st, max, content, i) ==
    IF ~st.ok \/ i > Len(content) THEN st
    ELSE appendContent(appendDocsElementText(st.buf, max, content[i]),
                       max, content, i + 1)

\* for cellIdx, cell := range row.TableCells
appendCells(st, max, cells, i) ==
    IF ~st.ok \/ i > Len(cells) THEN st
    ELSE LET sep == IF CellSeparator(i - 1) # <<>>
                    THEN appendLimited(st.buf, max, CellSeparator(i - 1))
                    ELSE st
         IN  appendCells(appendContent(sep, max, cells[i], 1),
                         max, cells, i + 1)

\* for rowIdx, row := range el.Table.TableRows
appendRows(st, max, rows, i) ==
    IF ~st.ok \/ i > Len(rows) THEN st
    ELSE LET sep == IF RowSeparator(i - 1) # <<>>
                    THEN appendLimited(st.buf, max, RowSeparator(i - 1))
                    ELSE st
         IN  appendRows(appendCells(sep, max, rows[i], 1), max, rows, i + 1)

appendDocsElementText(b, max, e) ==
    LET st == [buf |-> b, ok |-> TRUE] IN
    CASE e.kind = "Paragraph" -> appendTextRuns(st, max, e.elements, 1)
      [] e.kind = "Table" -> appendRows(st, max, e.rows, 1)
      [] e.kind = "TableOfContents" -> appendContent(st, max, e.content, 1)
      [] OTHER -> st

\* No docsPlainText call, no second Parse call: the state of the variables
\* a specification does not use.
DocsIdle ==
    /\ gdoc = DocsDocument(TRUE, TRUE, <<>>)
    /\ maxBytes = 0
    /\ out = <<>>
    /\ el = 1
    /\ dpc = "idle"
    /\ text = <<>>

(***************************************************************************)
(* DocsUpdateCmd.Run (the docs update command).  cmd holds the command's  *)
(* fields and what the calls it makes give back: whether requireAccount   *)
(* and newDocsService succeed, what os.ReadFile finds, what Documents.Get *)
(* returns, whether Documents.BatchUpdate succeeds, whether the output is *)
(* JSON (outfmt.IsJSON) and whether writing to os.Stdout succeeds.  The   *)
(* document is the EndIndex values of its Body.Content.                    *)
(***************************************************************************)
MaxInsertAt == 2

Command(docID, content, contentFile, file, replaceAll, insertAt, account, service, get, batch, json, stdout) ==
    [DocID |-> docID, Content |-> content, ContentFile |-> contentFile,
     file |-> file, ReplaceAll |-> replaceAll, InsertAt |-> insertAt,
     account |-> account, service |-> service, get |-> get, batch |-> batch,
     json |-> json, stdout |-> stdout]

\* os.ReadFile: the data, or an error.
File(ok, data) == [ok |-> ok, data |-> data]

\* Documents.Get(id).Do(): a document, or an error (not found, or another).
Got(err, isNil, bodyNil, endIndexes) ==
    [err |-> err, nil |-> isNil, bodyNil |-> bodyNil, endIndexes |-> endIndexes]

GetResults ==
    { Got("notFound", TRUE, TRUE, <<>>),
      Got("other", TRUE, TRUE, <<>>),
      Got("nil", TRUE, TRUE, <<>>),
      Got("nil", FALSE, TRUE, <<>>),
      Got("nil", FALSE, FALSE, <<>>),
      Got("nil", FALSE, FALSE, <<0>>),
      Got("nil", FALSE, FALSE, <<1>>),
      Got("nil", FALSE, FALSE, <<2>>),
      Got("nil", FALSE, FALSE, <<3>>),
      Got("nil", FALSE, FALSE, <<1, 7, 12>>) }

Commands ==
    { Command(docID, content, contentFile, file, replaceAll, insertAt,
              account, service, get, batch, json, stdout) :
        docID \in {<<>>, <<32>>, <<32, 100, 10>>, <<194, 160>>,
                   <<9, 226, 128, 168>>, <<194, 133, 100, 227, 128, 128>>},
        content \in {<<>>, <<120>>},
        contentFile \in {<<>>, <<102>>},
        file \in {File(FALSE, <<>>), File(TRUE, <<>>), File(TRUE, <<121, 10>>)},
        replaceAll \in BOOLEAN,
        insertAt \in -1..MaxInsertAt,
        account \in BOOLEAN,
        service \in BOOLEAN,
        get \in GetResults,
        batch \in BOOLEAN,
        json \in BOOLEAN,
        stdout \in BOOLEAN }

NoCommand ==
    Command(<<>>, <<>>, <<>>, File(FALSE, <<>>), FALSE, 1, FALSE, FALSE,
            Got("nil", TRUE, TRUE, <<>>), FALSE, FALSE, FALSE)

\* strings.TrimSpace: without the white space at both ends.  White space
\* is what unicode.IsSpace says, here in UTF-8: \t \n \v \f \r and the
\* space, U+0085, U+00A0, U+1680, U+2000 to U+200A, U+2028, U+2029, U+202F,
\* U+205F, U+3000.  A byte that is no part of a valid character decodes to
\* U+FFFD, which is no white space.
WhiteSpace ==
    {<<b>> : b \in {9, 10, 11, 12, 13, 32}}
    \cup {<<194, 133>>, <<194, 160>>, <<225, 154, 128>>}
    \cup {<<226, 128, b>> : b \in 128..138}
    \cup {<<226, 128, 168>>, <<226, 128, 169>>, <<226, 128, 175>>,
          <<226, 129, 159>>, <<227, 128, 128>>}

\* The number of bytes of the white-space character str begins with / ends
\* with; 0 if it begins / ends with something else.
LeadingSpace(str) ==
    LET lens == {l \in 1..3 : l <= Len(str) /\ SubSeq(str, 1, l) \in WhiteSpace}
    IN  IF lens = {} THEN 0 ELSE CHOOSE l \in lens : TRUE

TrailingSpace(str) ==
    LET lens == {l \in 1..3 : l <= Len(str)
                    /\ SubSeq(str, Len(str) - l + 1, Len(str)) \in WhiteSpace}
    IN  IF lens = {} THEN 0 ELSE CHOOSE l \in lens : TRUE

RECURSIVE TrimLeft(_)
TrimLeft(str) ==
    IF LeadingSpace(str) = 0 THEN str
    ELSE TrimLeft(SubSeq(str, LeadingSpace(str) + 1, Len(str)))

RECURSIVE TrimRight(_)
TrimRight(str) ==
    IF TrailingSpace(str) = 0 THEN str
    ELSE TrimRight(SubSeq(str, 1, Len(str) - TrailingSpace(str)))

TrimSpace(str) == TrimRight(TrimLeft(str))

\* resolveContent: the content, or an error.
resolveContent(content, contentFile, file) ==
    IF content # <<>> /\ contentFile # <<>>
    THEN [err |-> "cannot use both --content and --content-file",
          content |-> <<>>]
    ELSE IF contentFile # <<>>
         THEN IF ~file.ok
              THEN [err |-> "read content file", content |-> <<>>]
              ELSE [err |-> "nil", content |-> file.data]
         ELSE [err |-> "nil", content |-> content]

getDocEndIndex(d) ==
    IF d.nil \/ d.bodyNil \/ Len(d.endIndexes) = 0 THEN 1
    ELSE LET last == d.endIndexes[Len(d.endIndexes)] IN
         IF last > 1 THEN last - 1 ELSE 1

UpdateRequest(req, start, end, txt, index) ==
    [req |-> req, start |-> start, end |-> end, text |-> txt, index |-> index]

DeleteContentRange(start, end) ==
    UpdateRequest("DeleteContentRange", start, end, <<>>, 0)

InsertText(txt, index) == UpdateRequest("InsertText", 0, 0, txt, index)

\* The insert index taken from --insert-at as it is.
InsertIndexAsGiven(insertAt) == insertAt

\* insertIndex := c.InsertAt; if insertIndex < 1 { insertIndex = 1 }
InsertIndex(insertAt) == IF insertAt < 1 THEN 1 ELSE insertAt

\* No docs update command.
UpdateIdle ==
    /\ cmd = NoCommand
    /\ updPc = "idle"
    /\ updContent = <<>>
    /\ updRequests = <<>>
    /\ updErr = "nil"
    /\ batches = <<>>

OneCall ==
    /\ call = 1
    /\ suspended = <<>>
    /\ preempted = {}

(***************************************************************************)
(* Parse: the walker is created and ast.Walk starts at the root.           *)
(***************************************************************************)
Init ==
    /\ doc \in InputDocs
    /\ baseIndex \in 1..MaxBase
    /\ buf = <<>>
    /\ requests = <<>>
    /\ paragraphStart = 0
    /\ inList = FALSE
    /\ listOrdered = FALSE
    /\ n = 1
    /\ entering = TRUE
    /\ pc = "walk"
    /\ plainText = <<>>
    /\ visit = [i \in 1..Len(doc) |-> [in |-> 0, out |-> 0]]
    /\ reqNode = <<>>
    /\ OneCall
    /\ DocsIdle
    /\ UpdateIdle

(***************************************************************************)
(* ast.Walk: after walker(n, true) the first child unless the callback     *)
(* returned WalkSkipChildren, then walker(n, false); after that the next   *)
(* sibling, else the parent's exit, else the walk is over.                 *)
(***************************************************************************)
Walk(skipChildren) ==
    /\ IF entering
       THEN IF ~skipChildren /\ HasChildren(doc, n)
            THEN n' = n + 1 /\ entering' = TRUE /\ pc' = pc
            ELSE n' = n /\ entering' = FALSE /\ pc' = pc
       ELSE IF HasNextSibling(doc, n)
            THEN n' = NextSibling(doc, n) /\ entering' = TRUE /\ pc' = pc
            ELSE IF Parent(doc, n) # 0
                 THEN n' = Parent(doc, n) /\ entering' = FALSE /\ pc' = pc
                 ELSE n' = n /\ entering' = entering /\ pc' = "ret"
    /\ visit' = [visit EXCEPT ![n] =
                    IF entering
                    THEN [@ EXCEPT !.in = currentIndex(baseIndex, buf)]
                    ELSE [@ EXCEPT !.out = currentIndex(baseIndex, buf')]]
    /\ reqNode' = reqNode \o [k \in 1..(Len(requests') - Len(requests)) |-> n]
    /\ UNCHANGED <<doc, baseIndex, plainText, callVars, docsVars, updVars>>

At(kind) == pc = "walk" /\ doc[n].kind = kind

\* case *ast.Document, *ast.ListItem, *ast.Emphasis, *extast.Strikethrough,
\* *ast.Link, *ast.Blockquote, *ast.HTMLBlock, *ast.RawHTML: nothing is done.
walkPassThrough ==
    /\ pc = "walk"
    /\ doc[n].kind \in {"Document", "ListItem", "Emphasis", "Strikethrough",
                        "Link", "Blockquote", "HTMLBlock", "RawHTML"}
    /\ UNCHANGED <<buf, requests, paragraphStart, inList, listOrdered>>
    /\ Walk(FALSE)

\* case *ast.Heading with the style added before the newline is written.
walkHeadingStyleBeforeNewline ==
    /\ At("Heading")
    /\ IF entering
       THEN /\ paragraphStart' = currentIndex(baseIndex, buf)
            /\ UNCHANGED <<buf, requests>>
       ELSE /\ requests' = addHeadingStyle(requests, paragraphStart,
                               currentIndex(baseIndex, buf), doc[n].level)
            /\ buf' = buf \o NL
            /\ UNCHANGED paragraphStart
    /\ UNCHANGED <<inList, listOrdered>>
    /\ Walk(FALSE)

walkHeading ==
    /\ At("Heading")
    /\ IF entering
       THEN /\ paragraphStart' = currentIndex(baseIndex, buf)
            /\ UNCHANGED <<buf, requests>>
       ELSE /\ buf' = buf \o NL
            /\ requests' = addHeadingStyle(requests, paragraphStart,
                               currentIndex(baseIndex, buf'), doc[n].level)
            /\ UNCHANGED paragraphStart
    /\ UNCHANGED <<inList, listOrdered>>
    /\ Walk(FALSE)

walkParagraph ==
    /\ At("Paragraph")
    /\ IF entering
       THEN /\ paragraphStart' = currentIndex(baseIndex, buf)
            /\ UNCHANGED <<buf, requests>>
       ELSE /\ buf' = buf \o NL
            /\ requests' = IF inList
                           THEN addBulletRequest(requests, paragraphStart,
                                    currentIndex(baseIndex, buf'), listOrdered)
                           ELSE requests
            /\ UNCHANGED paragraphStart
    /\ UNCHANGED <<inList, listOrdered>>
    /\ Walk(FALSE)

walkList ==
    /\ At("List")
    /\ IF entering
       THEN inList' = TRUE /\ listOrdered' = doc[n].ordered
       ELSE inList' = FALSE /\ UNCHANGED listOrdered
    /\ UNCHANGED <<buf, requests, paragraphStart>>
    /\ Walk(FALSE)

walkTextBlock ==
    /\ At("TextBlock")
    /\ buf' = IF entering THEN buf ELSE buf \o NL
    /\ UNCHANGED <<requests, paragraphStart, inList, listOrdered>>
    /\ Walk(FALSE)

walkText ==
    /\ At("Text")
    /\ IF entering
       THEN LET start == currentIndex(baseIndex, buf)
                written == buf \o doc[n].val
                end == currentIndex(baseIndex, written)
            IN  /\ requests' = applyInlineFormatting(requests, doc, n, start, end)
                /\ buf' = written
                           \o (IF doc[n].brk = "soft" THEN SP ELSE <<>>)
                           \o (IF doc[n].brk = "hard" THEN NL ELSE <<>>)
       ELSE UNCHANGED <<buf, requests>>
    /\ UNCHANGED <<paragraphStart, inList, listOrdered>>
    /\ Walk(FALSE)

walkAutoLink ==
    /\ At("AutoLink")
    /\ IF entering
       THEN LET start == currentIndex(baseIndex, buf)
                url == doc[n].val
                written == buf \o url
                end == currentIndex(baseIndex, written)
            IN  /\ buf' = written
                /\ requests' = addLinkStyle(requests, start, end, url)
       ELSE UNCHANGED <<buf, requests>>
    /\ UNCHANGED <<paragraphStart, inList, listOrdered>>
    /\ Walk(FALSE)

\* The code span styled like a text leaf of its place as well.
walkCodeSpanStyled ==
    /\ At("CodeSpan")
    /\ IF entering
       THEN LET start == currentIndex(baseIndex, buf)
                written == buf \o ChildText(doc, n, n + 1)
                end == currentIndex(baseIndex, written)
            IN  /\ buf' = written
                /\ requests' = applyInlineFormatting(
                                   addCodeStyle(requests, start, end),
                                   doc, n, start, end)
       ELSE UNCHANGED <<buf, requests>>
    /\ UNCHANGED <<paragraphStart, inList, listOrdered>>
    /\ Walk(TRUE)

walkCodeSpan ==
    /\ At("CodeSpan")
    /\ IF entering
       THEN LET start == currentIndex(baseIndex, buf)
                written == buf \o ChildText(doc, n, n + 1)
                end == currentIndex(baseIndex, written)
            IN  /\ buf' = written
                /\ requests' = addCodeStyle(requests, start, end)
       ELSE UNCHANGED <<buf, requests>>
    /\ UNCHANGED <<paragraphStart, inList, listOrdered>>
    /\ Walk(TRUE)

\* The code block cases with `end` read after the newline is written.
CodeLinesEndAfterNewline(b, reqs, lines) ==
    LET start == currentIndex(baseIndex, b)
        written == b \o lines \o NL
        end == currentIndex(baseIndex, written)
    IN  [buf |-> written, requests |-> addCodeStyle(reqs, start, end)]

\* case *ast.FencedCodeBlock and case *ast.CodeBlock hold the same code.
CodeLines(b, reqs, lines) ==
    LET start == currentIndex(baseIndex, b)
        written == b \o lines
        end == currentIndex(baseIndex, written)
    IN  [buf |-> written \o NL, requests |-> addCodeStyle(reqs, start, end)]

walkFencedCodeBlock ==
    /\ At("FencedCodeBlock")
    /\ IF entering
       THEN LET r == CodeLines(buf, requests, doc[n].val)
            IN  buf' = r.buf /\ requests' = r.requests
       ELSE UNCHANGED <<buf, requests>>
    /\ UNCHANGED <<paragraphStart, inList, listOrdered>>
    /\ Walk(FALSE)

walkCodeBlock ==
    /\ At("CodeBlock")
    /\ IF entering
       THEN LET r == CodeLines(buf, requests, doc[n].val)
            IN  buf' = r.buf /\ requests' = r.requests
       ELSE UNCHANGED <<buf, requests>>
    /\ UNCHANGED <<paragraphStart, inList, listOrdered>>
    /\ Walk(FALSE)

walkThematicBreak ==
    /\ At("ThematicBreak")
    /\ buf' = IF entering THEN buf \o ThematicBreakLine ELSE buf
    /\ UNCHANGED <<requests, paragraphStart, inList, listOrdered>>
    /\ Walk(FALSE)

\* The alt text styled like a text leaf of the image's place.
walkImageStyled ==
    /\ At("Image")
    /\ buf' = IF entering
              THEN buf \o <<91>> \o ChildText(doc, n, n + 1) \o <<93>>
              ELSE buf
    /\ requests' = IF entering
                   THEN applyInlineFormatting(requests, doc, n,
                            currentIndex(baseIndex, buf),
                            currentIndex(baseIndex, buf'))
                   ELSE requests
    /\ UNCHANGED <<paragraphStart, inList, listOrdered>>
    /\ Walk(TRUE)

walkImage ==
    /\ At("Image")
    /\ buf' = IF entering
              THEN buf \o <<91>> \o ChildText(doc, n, n + 1) \o <<93>>
              ELSE buf
    /\ UNCHANGED <<requests, paragraphStart, inList, listOrdered>>
    /\ Walk(TRUE)

\* Parse, after ast.Walk: "Ensure final newline" and return.
HasSuffixNL(s) == Len(s) > 0 /\ s[Len(s)] = 10

\* The final step appending a newline whatever the text ends with.
FinalTextAlwaysAppends(b) == IF b # <<>> THEN b \o NL ELSE b

FinalText(b) == IF ~HasSuffixNL(b) /\ b # <<>> THEN b \o NL ELSE b

ParseReturn ==
    /\ pc = "ret"
    /\ plainText' = FinalText(buf)
    /\ pc' = "done"
    /\ UNCHANGED <<doc, baseIndex, buf, requests, paragraphStart, inList,
                   listOrdered, n, entering, visit, reqNode, callVars,
                   docsVars, updVars>>

Next ==
    \/ walkPassThrough
    \/ walkHeading
    \/ walkParagraph
    \/ walkList
    \/ walkTextBlock
    \/ walkText
    \/ walkAutoLink
    \/ walkCodeSpan
    \/ walkFencedCodeBlock
    \/ walkCodeBlock
    \/ walkThematicBreak
    \/ walkImage
    \/ ParseReturn

Spec == Init /\ [][Next]_vars

Done == pc = "done"

(***************************************************************************)
(* Several Parse calls.  Every call builds its own parser and its own      *)
(* walker (md := goldmark.New(...), w := &walker{...}), so a call is the   *)
(* thirteen variables above; the package has no variable of its own.  The *)
(* call that runs has its variables in place, the others wait in           *)
(* suspended, and Switch hands the processor from one call to another      *)
(* between two callbacks of the walk.  Call 1 is made on its own (no other *)
(* call is in flight while it runs); calls 2 and 3 run in any              *)
(* interleaving, before or after it.                                       *)
(***************************************************************************)
Calls == {1, 2, 3}

\* "# T\n\n**b** `c` <http://a> ![i](u)"
DocInline ==
    Document(<<
        Heading(1, <<Text(<<84>>)>>),
        Paragraph(<<Emphasis(2, <<Text(<<98>>)>>), Text(<<32>>),
                    CodeSpan(<<Text(<<99>>)>>), Text(<<32>>),
                    AutoLink(<<104, 116, 116, 112, 58, 47, 47, 97>>),
                    Text(<<32>>), Image(<<117>>, <<Text(<<105>>)>>)>>)>>)

\* "1. a\n\n   ```\n   x\n   ```\n\n2. b\n\n---\n\n    y\n"
DocBlocks ==
    Document(<<
        List(TRUE, <<
            ListItem(<<Paragraph(<<Text(<<97>>)>>), FencedCodeBlock(<<120, 10>>)>>),
            ListItem(<<Paragraph(<<Text(<<98>>)>>)>>)>>),
        ThematicBreak,
        CodeBlock(<<121, 10>>)>>)

\* "- t\n\ne"
DocShort ==
    Document(<<List(FALSE, <<ListItem(<<TextBlock(<<Text(<<116>>)>>)>>)>>),
               Paragraph(<<Text(<<101>>)>>)>>)

CallDocs == {DocInline, DocBlocks, DocShort}

\* The variables of the call that runs, as one value.
Context ==
    [doc |-> doc, baseIndex |-> baseIndex, buf |-> buf,
     requests |-> requests, paragraphStart |-> paragraphStart,
     inList |-> inList, listOrdered |-> listOrdered, n |-> n,
     entering |-> entering, pc |-> pc, plainText |-> plainText,
     visit |-> visit, reqNode |-> reqNode]

\* Parse(markdown, baseIndex) up to ast.Walk: the tree and a new walker.
NewCall(d, base) ==
    [doc |-> d, baseIndex |-> base, buf |-> <<>>, requests |-> <<>>,
     paragraphStart |-> 0, inList |-> FALSE, listOrdered |-> FALSE, n |-> 1,
     entering |-> TRUE, pc |-> "walk", plainText |-> <<>>,
     visit |-> [i \in 1..Len(d) |-> [in |-> 0, out |-> 0]],
     reqNode |-> <<>>]

\* The place in suspended of the call that runs.
Running == [NewCall(<<>>, 0) EXCEPT !.pc = "running"]

CallState(c) == IF c = call THEN Context ELSE suspended[c]

Started(c) ==
    LET w == CallState(c) IN ~(w.n = 1 /\ w.entering /\ w.pc = "walk")

Returned(c) == CallState(c).pc = "done"

InFlight(c) == Started(c) /\ ~Returned(c)

\* The call that runs is call w, about to walk its tree.
Starts(w) ==
    /\ doc = w.doc
    /\ baseIndex = w.baseIndex
    /\ buf = w.buf
    /\ requests = w.requests
    /\ paragraphStart = w.paragraphStart
    /\ inList = w.inList
    /\ listOrdered = w.listOrdered
    /\ n = w.n
    /\ entering = w.entering
    /\ pc = w.pc
    /\ plainText = w.plainText
    /\ visit = w.visit
    /\ reqNode = w.reqNode

InitCalls ==
    /\ call = 1
    /\ preempted = {}
    /\ \E d \in CallDocs, other \in CallDocs, base \in 1..MaxBase :
          /\ suspended = [c \in Calls |->
                              CASE c = 1 -> Running
                                [] c = 2 -> NewCall(d, base)
                                [] c = 3 -> NewCall(other, MaxBase + 1 - base)]
          /\ Starts(NewCall(d, base))
    /\ DocsIdle
    /\ UpdateIdle

\* The buffer is one for all calls: a call goes on with the buffer as the
\* call that ran before it left it.
ResumeSharedBuffer(c) == [suspended[c] EXCEPT !.buf = buf]

\* The list flag is one for all calls.
ResumeSharedListFlag(c) == [suspended[c] EXCEPT !.inList = inList]

\* The variables call c goes on with: its own, as it left them.
Resume(c) == suspended[c]

Restore(w) ==
    /\ doc' = w.doc
    /\ baseIndex' = w.baseIndex
    /\ buf' = w.buf
    /\ requests' = w.requests
    /\ paragraphStart' = w.paragraphStart
    /\ inList' = w.inList
    /\ listOrdered' = w.listOrdered
    /\ n' = w.n
    /\ entering' = w.entering
    /\ pc' = w.pc
    /\ plainText' = w.plainText
    /\ visit' = w.visit
    /\ reqNode' = w.reqNode

Switch ==
    \E c \in Calls \ {call} :
        /\ ~Returned(c)
        /\ c = 1 => \A o \in Calls \ {1} : ~InFlight(o)
        /\ call = 1 => ~InFlight(1)
        /\ Restore(Resume(c))
        /\ suspended' = [suspended EXCEPT ![call] = Context, ![c] = Running]
        /\ call' = c
        /\ preempted' = IF InFlight(call) THEN preempted \cup {call}
                        ELSE preempted
        /\ UNCHANGED <<docsVars, updVars>>

NextCalls == Next \/ Switch

SpecCalls == InitCalls /\ [][NextCalls]_vars

(***************************************************************************)
(* docsPlainText(doc, maxBytes), one step per iteration of its loop over   *)
(* doc.Body.Content.                                                       *)
(***************************************************************************)
\* No Parse call: the walker's variables while docsPlainText runs.
ParseIdle ==
    /\ doc = Document(<<>>)
    /\ baseIndex = 1
    /\ buf = <<>>
    /\ requests = <<>>
    /\ paragraphStart = 0
    /\ inList = FALSE
    /\ listOrdered = FALSE
    /\ n = 1
    /\ entering = TRUE
    /\ pc = "idle"
    /\ plainText = <<>>
    /\ visit = <<[in |-> 0, out |-> 0]>>
    /\ reqNode = <<>>
    /\ OneCall

InitDocs ==
    /\ gdoc \in DocsDocuments
    /\ maxBytes \in -1..MaxLimit
    /\ out = <<>>
    /\ el = 1
    /\ dpc = "range"
    /\ text = <<>>
    /\ ParseIdle
    /\ UpdateIdle

\* if doc == nil || doc.Body == nil { return "" }
docsPlainTextNil ==
    /\ dpc = "range"
    /\ gdoc.nil \/ gdoc.bodyNil
    /\ text' = <<>>
    /\ dpc' = "done"
    /\ UNCHANGED <<gdoc, maxBytes, out, el, parseVars, callVars, updVars>>

\* One iteration: if !appendDocsElementText(&buf, maxBytes, el) { break }
docsPlainTextElement ==
    /\ dpc = "range"
    /\ ~gdoc.nil /\ ~gdoc.bodyNil
    /\ el <= Len(gdoc.content)
    /\ LET st == appendDocsElementText(out, maxBytes, gdoc.content[el]) IN
          /\ out' = st.buf
          /\ el' = IF st.ok THEN el + 1 ELSE Len(gdoc.content) + 1
    /\ UNCHANGED <<gdoc, maxBytes, dpc, text, parseVars, callVars, updVars>>

\* return buf.String()
docsPlainTextReturn ==
    /\ dpc = "range"
    /\ ~gdoc.nil /\ ~gdoc.bodyNil
    /\ el > Len(gdoc.content)
    /\ text' = out
    /\ dpc' = "done"
    /\ UNCHANGED <<gdoc, maxBytes, out, el, parseVars, callVars, updVars>>

NextDocs ==
    \/ docsPlainTextNil
    \/ docsPlainTextElement
    \/ docsPlainTextReturn

SpecDocs == InitDocs /\ [][NextDocs]_vars

(***************************************************************************)
(* DocsUpdateCmd.Run, in five steps: the checks up to newDocsService, the  *)
(* Documents.Get of --replace-all, the insert request, the batch update,   *)
(* the output.                                                             *)
(***************************************************************************)
InitUpdate ==
    /\ cmd \in Commands
    /\ updPc = "run"
    /\ updContent = <<>>
    /\ updRequests = <<>>
    /\ updErr = "nil"
    /\ batches = <<>>
    /\ ParseIdle
    /\ DocsIdle

\* return err, from wherever in Run.
Fails(err) ==
    /\ updErr' = err
    /\ updPc' = "done"

\* requireAccount, the docId, resolveContent, newDocsService.
DocsUpdateRun ==
    /\ updPc = "run"
    /\ LET resolved == resolveContent(cmd.Content, cmd.ContentFile, cmd.file)
       IN  CASE ~cmd.account ->
                   Fails("account") /\ UNCHANGED updContent
             [] cmd.account /\ TrimSpace(cmd.DocID) = <<>> ->
                   Fails("empty docId") /\ UNCHANGED updContent
             [] cmd.account /\ TrimSpace(cmd.DocID) # <<>>
                /\ resolved.err # "nil" ->
                   Fails(resolved.err) /\ UNCHANGED updContent
             [] cmd.account /\ TrimSpace(cmd.DocID) # <<>>
                /\ resolved.err = "nil" /\ resolved.content = <<>> ->
                   Fails("no content provided") /\ UNCHANGED updContent
             [] cmd.account /\ TrimSpace(cmd.DocID) # <<>>
                /\ resolved.err = "nil" /\ resolved.content # <<>>
                /\ ~cmd.service ->
                   Fails("service") /\ updContent' = resolved.content
             [] OTHER ->
                   /\ updContent' = resolved.content
                   /\ updPc' = IF cmd.ReplaceAll THEN "get" ELSE "insert"
                   /\ UNCHANGED updErr
    /\ UNCHANGED <<cmd, updRequests, batches, parseVars, callVars, docsVars>>

\* if c.ReplaceAll { doc, err := svc.Documents.Get(id)...; endIndex := ... }
DocsUpdateGet ==
    /\ updPc = "get"
    /\ IF cmd.get.err # "nil"
       THEN /\ Fails(IF cmd.get.err = "notFound"
                     THEN "doc not found or not a Google Doc"
                     ELSE cmd.get.err)
            /\ UNCHANGED updRequests
       ELSE LET endIndex == getDocEndIndex(cmd.get) IN
            /\ updRequests' = IF endIndex > 1
                              THEN Append(updRequests,
                                          DeleteContentRange(1, endIndex))
                              ELSE updRequests
            /\ updPc' = "insert"
            /\ UNCHANGED updErr
    /\ UNCHANGED <<cmd, updContent, batches, parseVars, callVars, docsVars>>

\* "Insert new content"
DocsUpdateInsert ==
    /\ updPc = "insert"
    /\ updRequests' = Append(updRequests,
                             InsertText(updContent, InsertIndex(cmd.InsertAt)))
    /\ updPc' = "batch"
    /\ UNCHANGED <<cmd, updContent, updErr, batches, parseVars, callVars,
                   docsVars>>

\* svc.Documents.BatchUpdate(id, req).Context(ctx).Do()
DocsUpdateBatch ==
    /\ updPc = "batch"
    /\ batches' = Append(batches, updRequests)
    /\ updErr' = IF cmd.batch THEN "nil" ELSE "update failed"
    /\ updPc' = IF cmd.batch THEN "output" ELSE "done"
    /\ UNCHANGED <<cmd, updContent, updRequests, parseVars, callVars,
                   docsVars>>

\* The output: return outfmt.WriteJSON(os.Stdout, ...) in JSON mode, with
\* the error of the write; else the lines of u.Out().Printf, whose result
\* is dropped, and return nil.
DocsUpdateOutput ==
    /\ updPc = "output"
    /\ updErr' = IF cmd.json /\ ~cmd.stdout THEN "write" ELSE "nil"
    /\ updPc' = "done"
    /\ UNCHANGED <<cmd, updContent, updRequests, batches, parseVars,
                   callVars, docsVars>>

NextUpdate ==
    \/ DocsUpdateRun
    \/ DocsUpdateGet
    \/ DocsUpdateInsert
    \/ DocsUpdateBatch
    \/ DocsUpdateOutput

SpecUpdate == InitUpdate /\ [][NextUpdate]_vars


(***************************************************************************)
(* Vocabulary of the properties.                                           *)
(***************************************************************************)
Reqs == 1..Len(requests)
Nodes == 1..Len(doc)
Entered(m) == visit[m].in # 0
Left(m) == visit[m].out # 0
ReqsOf(m) == {k \in Reqs : reqNode[k] = m}
IsField(k, f) == requests[k].fields = f

\* Number of characters (code points) of a UTF-8 text: its bytes that are
\* no continuation bytes (10xxxxxx).
RuneCount(s) == Cardinality({i \in 1..Len(s) : s[i] \div 64 # 2})

\* What the callbacks of node m write after the content its range covers.
Trailer(m) ==
    CASE doc[m].kind \in {"FencedCodeBlock", "CodeBlock"} -> 1
      [] doc[m].kind = "Text" /\ doc[m].brk # "none" -> 1
      [] OTHER -> 0

(***************************************************************************)
(* C1.  Every request of the result has a range within the returned text:  *)
(* 0 < StartIndex <= EndIndex <= baseIndex + length(PlainText), the length *)
(* counted in characters, the unit of the document the ranges address.     *)
(***************************************************************************)
C1_RangesWithinText ==
    Done => \A k \in Reqs :
                /\ 0 < requests[k].start
                /\ requests[k].start <= requests[k].end
                /\ requests[k].end <= baseIndex + RuneCount(plainText)

(***************************************************************************)
(* C2 as stated.  Every request starts at the cursor at which its node was *)
(* entered and ends at the cursor at which the traversal left that node.   *)
(***************************************************************************)
C2_RangeIsEnterToExit ==
    \A k \in Reqs :
        Left(reqNode[k]) =>
            /\ requests[k].start = visit[reqNode[k]].in
            /\ requests[k].end = visit[reqNode[k]].out

(***************************************************************************)
(* C2 amended.  Every request starts at the cursor at which its node was   *)
(* entered; it ends at the cursor at which the traversal left the node for *)
(* headings, list paragraphs, autolinks, code spans and text leaves with   *)
(* no line break, and one before that cursor for code blocks and for text  *)
(* leaves with a line break: the newline or space written after the        *)
(* content is outside the range.                                           *)
(***************************************************************************)
C2_RangeIsEnterToContentEnd ==
    \A k \in Reqs :
        Left(reqNode[k]) =>
            /\ requests[k].start = visit[reqNode[k]].in
            /\ requests[k].end = visit[reqNode[k]].out - Trailer(reqNode[k])

\* The request of a text leaf that carries a line break of kind b and has
\* styling ancestor a: it ends where the leaf's text ends, one before the
\* cursor at which the leaf was left.
BreakLeafReq(k, b, a) ==
    LET m == reqNode[k]
    IN  /\ doc[m].kind = "Text"
        /\ doc[m].brk = b
        /\ doc[Parent(doc, m)].kind = a
        /\ requests[k].start = visit[m].in
        /\ requests[k].end = visit[m].in + Len(doc[m].val)
        /\ requests[k].end = visit[m].out - 1

\* Reached: text leaves with a soft line break under emphasis and under
\* strikethrough and one with a hard line break under bold have been left
\* and each has its request, ending one before the cursor at its exit; so
\* has a code block; an autolink and two list paragraphs have requests
\* that end at the cursor at their exit.
C2_Witness ==
    /\ Done
    /\ doc = DocStyledBreaks
    /\ \E k \in Reqs : BreakLeafReq(k, "soft", "Emphasis") /\ IsField(k, "italic")
    /\ \E k \in Reqs : BreakLeafReq(k, "hard", "Emphasis") /\ IsField(k, "bold")
    /\ \E k \in Reqs : BreakLeafReq(k, "soft", "Strikethrough")
    /\ \E k \in Reqs : /\ doc[reqNode[k]].kind = "FencedCodeBlock"
                        /\ requests[k].end = visit[reqNode[k]].out - 1
    /\ \E k \in Reqs : /\ doc[reqNode[k]].kind = "AutoLink"
                        /\ requests[k].end = visit[reqNode[k]].out
    /\ \E k \in Reqs : /\ doc[reqNode[k]].kind = "Paragraph"
                        /\ requests[k].end = visit[reqNode[k]].out

(***************************************************************************)
(* C3 as stated.  A non-empty PlainText ends with exactly one newline.     *)
(***************************************************************************)
C3_SingleTrailingNewline ==
    (Done /\ plainText # <<>>) =>
        /\ plainText[Len(plainText)] = 10
        /\ Len(plainText) > 1 => plainText[Len(plainText) - 1] # 10

(***************************************************************************)
(* C3 amended.  A non-empty PlainText ends with a newline; the character   *)
(* before it may be a newline too, and Parse appends one only to a text    *)
(* that does not end with one.                                             *)
(***************************************************************************)
C3_TrailingNewline ==
    (Done /\ plainText # <<>>) =>
        /\ plainText[Len(plainText)] = 10
        /\ plainText = IF HasSuffixNL(buf) THEN buf ELSE buf \o NL

\* Reached: a returned text that ends with two newlines.
C3_Witness ==
    /\ Done
    /\ Len(plainText) > 2
    /\ plainText[Len(plainText)] = 10
    /\ plainText[Len(plainText) - 1] = 10
    /\ doc[Len(doc)].kind = "FencedCodeBlock"

(***************************************************************************)
(* C4 as stated.  "# Title\n\nBody" at baseIndex 1 gives "Title\nBody\n"   *)
(* and exactly one heading request, HEADING_1 over [1, 6).                 *)
(***************************************************************************)
TitleBodyText == <<84, 105, 116, 108, 101, 10, 66, 111, 100, 121, 10>>

HeadingReqs == {k \in Reqs : IsField(k, "namedStyleType")}

C4_HeadingRangeExcludesNewline ==
    (Done /\ doc = DocTitleBody /\ baseIndex = 1) =>
        /\ plainText = TitleBodyText
        /\ Cardinality(HeadingReqs) = 1
        /\ \A k \in HeadingReqs :
              /\ requests[k].req = "UpdateParagraphStyle"
              /\ requests[k].style = "HEADING_1"
              /\ requests[k].start = 1
              /\ requests[k].end = 6

(***************************************************************************)
(* C4 amended.  The same input gives "Title\nBody\n" and exactly one       *)
(* heading request, HEADING_1 over [1, 7): the 5 characters of the heading *)
(* text and the newline appended on exit.                                  *)
(***************************************************************************)
C4_HeadingRangeIncludesNewline ==
    (Done /\ doc = DocTitleBody /\ baseIndex = 1) =>
        /\ plainText = TitleBodyText
        /\ Cardinality(HeadingReqs) = 1
        /\ \A k \in HeadingReqs :
              /\ requests[k].req = "UpdateParagraphStyle"
              /\ requests[k].style = "HEADING_1"
              /\ requests[k].start = 1
              /\ requests[k].end = 7

C4_Witness ==
    Done /\ doc = DocTitleBody /\ baseIndex = 1 /\ HeadingReqs # {}


(***************************************************************************)
(* Content of a node: what its callbacks and its descendants' wrote, less  *)
(* the newline that ends a block.                                          *)
(***************************************************************************)
Terminator(m) ==
    IF doc[m].kind \in {"Heading", "Paragraph"} THEN 1 ELSE Trailer(m)

ContentLen(m) == visit[m].out - visit[m].in - Terminator(m)

Descendants(m) == {j \in Nodes : m \in Ancestors(doc, j)}

LinkAncestors(m) == {a \in Ancestors(doc, m) : doc[a].kind = "Link"}

EmptySpan(m) ==
    /\ Left(m)
    /\ doc[m].kind \in {"Heading", "Text", "CodeSpan", "FencedCodeBlock", "CodeBlock"}
    /\ ContentLen(m) = 0

TextlessInline(m) ==
    /\ Left(m)
    /\ doc[m].kind \in {"Emphasis", "Strikethrough", "Link"}
    /\ \A j \in Descendants(m) : doc[j].kind # "Text" \/ doc[j].val = <<>>

(***************************************************************************)
(* C5 as stated.  No request has an empty range, and a node with empty     *)
(* content (an empty heading, text leaf, code span or code block, an       *)
(* emphasis or link with no text) produces no request.                     *)
(***************************************************************************)
C5_NoRequestForEmptyContent ==
    /\ \A k \in Reqs : requests[k].start < requests[k].end
    /\ \A m \in Nodes : EmptySpan(m) => ReqsOf(m) = {}
    /\ \A m \in Nodes : TextlessInline(m) =>
           \A j \in Descendants(m) : ReqsOf(j) = {}

(***************************************************************************)
(* C5 amended.  No request has an empty range; an empty text leaf, code    *)
(* span or code block and an emphasis or link with no text produce no      *)
(* request; a heading with empty content produces one heading request,     *)
(* over the newline appended on its exit.                                  *)
(***************************************************************************)
C5_NoEmptyRange ==
    /\ \A k \in Reqs : requests[k].start < requests[k].end
    /\ \A m \in Nodes : EmptySpan(m) =>
           IF doc[m].kind = "Heading"
           THEN /\ Cardinality(ReqsOf(m)) = 1
                /\ \A k \in ReqsOf(m) :
                      /\ IsField(k, "namedStyleType")
                      /\ requests[k].start = visit[m].in
                      /\ requests[k].end = visit[m].in + 1
           ELSE ReqsOf(m) = {}
    /\ \A m \in Nodes : TextlessInline(m) =>
           \A j \in Descendants(m) : ReqsOf(j) = {}

\* An empty text leaf under styling ancestor a, left without a request
\* although the text leaf after it, under the same ancestors, has one.
EmptyLeafDropped(m, a) ==
    /\ EmptySpan(m)
    /\ doc[m].kind = "Text"
    /\ doc[m].val = <<>>
    /\ doc[Parent(doc, m)].kind = a
    /\ ReqsOf(m) = {}
    /\ HasNextSibling(doc, m)
    /\ doc[NextSibling(doc, m)].kind = "Text"
    /\ ReqsOf(NextSibling(doc, m)) # {}

\* Reached: an empty text leaf under emphasis and one under strikethrough
\* in a link have been left with no request, the styles of their place
\* notwithstanding; so have an empty code block and a link with no text,
\* and an empty heading has been left with its one request.
C5_Witness ==
    /\ Done
    /\ doc = DocEmptySpans
    /\ \E m \in Nodes : EmptyLeafDropped(m, "Emphasis")
    /\ \E m \in Nodes : EmptyLeafDropped(m, "Strikethrough")
                         /\ LinkAncestors(m) # {}
    /\ \E m \in Nodes : EmptySpan(m) /\ doc[m].kind = "Heading"
                         /\ Cardinality(ReqsOf(m)) = 1
    /\ \E m \in Nodes : EmptySpan(m) /\ doc[m].kind = "FencedCodeBlock"
                         /\ ReqsOf(m) = {}
    /\ \E m \in Nodes : TextlessInline(m) /\ doc[m].kind = "Link"

(***************************************************************************)
(* C6 as stated.  "**a *b* c**" gives a single bold request, over the      *)
(* whole span "a b c", and no other bold request.                          *)
(***************************************************************************)
BoldReqs == {k \in Reqs : IsField(k, "bold")}

Covering(ks, i) == {k \in ks : requests[k].start <= i /\ i < requests[k].end}

C6_SingleBoldRequest ==
    (Done /\ doc = DocNestedEmphasis) =>
        /\ Cardinality(BoldReqs) = 1
        /\ \A k \in BoldReqs :
              requests[k].start = baseIndex /\ requests[k].end = baseIndex + 5

(***************************************************************************)
(* C6 amended.  "**a *b* c**" gives one bold request per text leaf, over   *)
(* "a ", "b" and " c": the three ranges adjoin, every index of the span    *)
(* lies in exactly one of them and none reaches outside the span.          *)
(***************************************************************************)
C6_BoldOncePerLeaf ==
    (Done /\ doc = DocNestedEmphasis) =>
        /\ Cardinality(BoldReqs) = 3
        /\ {<<requests[k].start, requests[k].end>> : k \in BoldReqs} =
              {<<baseIndex, baseIndex + 2>>, <<baseIndex + 2, baseIndex + 3>>,
               <<baseIndex + 3, baseIndex + 5>>}
        /\ \A i \in baseIndex..(baseIndex + 4) :
              Cardinality(Covering(BoldReqs, i)) = 1
        /\ \A k \in BoldReqs :
              baseIndex <= requests[k].start /\ requests[k].end <= baseIndex + 5

C6_Witness ==
    Done /\ doc = DocNestedEmphasis /\ BoldReqs # {}

(***************************************************************************)
(* C7.  A non-empty text leaf gets exactly one request per style kind that *)
(* applies to it, over its own range: italic for an Emphasis ancestor of   *)
(* level 1, bold for one of level >= 2, strikethrough for a Strikethrough  *)
(* ancestor, link for a Link ancestor with a destination; no kind twice,   *)
(* and "**bold** and *italic*" at baseIndex 1 gives Bold [1,5) and         *)
(* Italic [10,16) and nothing else.                                        *)
(***************************************************************************)
StylesOf(m) ==
    LET anc == Ancestors(doc, m)
    IN  (IF \E a \in anc : doc[a].kind = "Emphasis" /\ doc[a].level = 1
         THEN {"italic"} ELSE {})
        \cup (IF \E a \in anc : doc[a].kind = "Emphasis" /\ doc[a].level >= 2
              THEN {"bold"} ELSE {})
        \cup (IF \E a \in anc : doc[a].kind = "Strikethrough"
              THEN {"strikethrough"} ELSE {})
        \cup (IF \E a \in anc : doc[a].kind = "Link" /\ doc[a].val # <<>>
              THEN {"link"} ELSE {})

C7_OneRequestPerStyle ==
    /\ \A m \in Nodes :
          (doc[m].kind = "Text" /\ Entered(m) /\ doc[m].val # <<>>) =>
              /\ {requests[k].fields : k \in ReqsOf(m)} = StylesOf(m)
              /\ Cardinality(ReqsOf(m)) = Cardinality(StylesOf(m))
              /\ \A k \in ReqsOf(m) :
                    /\ requests[k].start = visit[m].in
                    /\ requests[k].end = visit[m].in + Len(doc[m].val)
    /\ (Done /\ doc = DocBoldItalic /\ baseIndex = 1) =>
          /\ Len(requests) = 2
          /\ IsField(1, "bold") /\ requests[1].start = 1 /\ requests[1].end = 5
          /\ IsField(2, "italic") /\ requests[2].start = 10 /\ requests[2].end = 16

(***************************************************************************)
(* Lists.                                                                  *)
(***************************************************************************)
ListItems == {m \in Nodes : doc[m].kind = "ListItem"}

\* Nesting depth of a list item: the lists it lies in.
Depth(m) == Cardinality({a \in Ancestors(doc, m) : doc[a].kind = "List"})

BulletReqs == {k \in Reqs : requests[k].req = "CreateParagraphBullets"}

IndentReqs ==
    {k \in Reqs : /\ requests[k].req = "UpdateParagraphStyle"
                  /\ requests[k].indentStart # "nil"}

\* Number of tab characters PlainText holds from the place where item m starts.
RECURSIVE TabsFrom(_)
TabsFrom(i) ==
    IF i <= Len(plainText) /\ plainText[i] = 9 THEN 1 + TabsFrom(i + 1) ELSE 0

TabPrefix(m) == TabsFrom(visit[m].in - baseIndex + 1)

(***************************************************************************)
(* C8.  Every list item gets exactly one CreateParagraphBullets request,   *)
(* with the preset of the item's own list: NUMBERED_DECIMAL_ALPHA_ROMAN in *)
(* an ordered list, BULLET_DISC_CIRCLE_SQUARE in an unordered one.         *)
(***************************************************************************)
C8_OneBulletPerItem ==
    Done =>
        /\ Cardinality(BulletReqs) = Cardinality(ListItems)
        /\ \A it \in ListItems :
              LET own == {k \in BulletReqs : Parent(doc, reqNode[k]) = it}
              IN  /\ Cardinality(own) = 1
                  /\ \A k \in own :
                        requests[k].style = BulletPreset(doc[Parent(doc, it)].ordered)

(***************************************************************************)
(* C9.  The line of a list item at nesting depth d starts with d - 1 tab   *)
(* characters, and no request sets IndentStart.                            *)
(***************************************************************************)
C9_TabsPerDepth ==
    Done =>
        /\ \A it \in ListItems : TabPrefix(it) = Depth(it) - 1
        /\ IndentReqs = {}

(***************************************************************************)
(* C10.  No list item's line starts with a tab, and there is exactly one   *)
(* request setting IndentStart per list item at nesting depth > 1.         *)
(***************************************************************************)
C10_IndentPerNestedItem ==
    Done =>
        /\ \A it \in ListItems : TabPrefix(it) = 0
        /\ Cardinality(IndentReqs) = Cardinality({it \in ListItems : Depth(it) > 1})


(***************************************************************************)
(* C11.  Table flattening: a tab between consecutive cells of a row, a     *)
(* newline between consecutive rows, nothing else between cell contents    *)
(* and no separator before the first cell of the first row.                *)
(***************************************************************************)
RECURSIVE ElementText(_)
RECURSIVE RunsText(_, _)
RECURSIVE ContentText(_, _)
RECURSIVE CellsText(_, _)
RECURSIVE RowsText(_, _)

RunsText(elements, i) ==
    IF i > Len(elements) THEN <<>>
    ELSE elements[i].content \o RunsText(elements, i + 1)

\* The texts of the elements from the i-th on, one after the other.
ContentText(content, i) ==
    IF i > Len(content) THEN <<>>
    ELSE ElementText(content[i]) \o ContentText(content, i + 1)

\* The cells from the i-th on, joined by tabs.
CellsText(cells, i) ==
    IF i > Len(cells) THEN <<>>
    ELSE ContentText(cells[i], 1)
         \o (IF i < Len(cells) THEN TAB ELSE <<>>) \o CellsText(cells, i + 1)

\* The rows from the i-th on, joined by newlines.
RowsText(rows, i) ==
    IF i > Len(rows) THEN <<>>
    ELSE CellsText(rows[i], 1)
         \o (IF i < Len(rows) THEN NL ELSE <<>>) \o RowsText(rows, i + 1)

ElementText(e) ==
    CASE e.kind = "Paragraph" -> RunsText(e.elements, 1)
      [] e.kind = "Table" -> RowsText(e.rows, 1)
      [] e.kind = "TableOfContents" -> ContentText(e.content, 1)
      [] OTHER -> <<>>

DocsDone == dpc = "done" /\ ~gdoc.nil /\ ~gdoc.bodyNil

\* The limit does not cut the text short.
Unlimited ==
    maxBytes <= 0 \/ Len(ContentText(gdoc.content, 1)) <= maxBytes

\* C11 as stated: the cells of a row are joined by tabs and the rows by
\* newlines, and the table of 2 rows by 2 cells with contents a, b, c, d
\* flattens to "a\tb\nc\td\n".
C11_TableEndsWithNewline ==
    DocsDone /\ Unlimited =>
        /\ text = ContentText(gdoc.content, 1)
        /\ gdoc.content = <<Table2x2>> =>
               text = <<97, 9, 98, 10, 99, 9, 100, 10>>

\* C11, amended: the cells of a row are joined by tabs and the rows by
\* newlines, nothing precedes the first cell and nothing follows the last
\* one: the table of 2 rows by 2 cells with contents a, b, c, d flattens to
\* "a\tb\nc\td".
C11_TabsAndNewlinesBetweenCells ==
    DocsDone /\ Unlimited =>
        /\ text = ContentText(gdoc.content, 1)
        /\ gdoc.content = <<Table2x2>> =>
               text = <<97, 9, 98, 10, 99, 9, 100>>

C11_Witness ==
    /\ DocsDone
    /\ maxBytes = 0
    /\ gdoc.content = <<Table2x2>>
    /\ text = <<97, 9, 98, 10, 99, 9, 100>>


(***************************************************************************)
(* C12.  An image becomes "[" + the text of its direct text children +     *)
(* "]"; its children are not visited; no request covers any of the         *)
(* bracketed text, wherever the image stands.                              *)
(***************************************************************************)
Images == {m \in Nodes : doc[m].kind = "Image" /\ Left(m)}

\* What the walker wrote between entering node m and leaving it.
Written(m) ==
    SubSeq(buf, visit[m].in - baseIndex + 1, visit[m].out - baseIndex)

Bracketed(m) == <<91>> \o ChildText(doc, m, m + 1) \o <<93>>

\* The requests with a range that shares a position with what m wrote.
Overlapping(m) ==
    {k \in Reqs : requests[k].start < visit[m].out
                  /\ visit[m].in < requests[k].end}

ImageDegrades(m) ==
    /\ Written(m) = Bracketed(m)
    /\ \A j \in Descendants(m) : ~Entered(j)
    /\ Done => SubSeq(plainText, visit[m].in - baseIndex + 1,
                      visit[m].out - baseIndex) = Bracketed(m)

\* C12 as stated: no request at all overlaps the bracketed text.
C12_NoRequestOverImage ==
    \A m \in Images : ImageDegrades(m) /\ Overlapping(m) = {}

\* C12, amended: no text-style request (bold, italic, strikethrough, link,
\* code font) overlaps the bracketed text; the paragraph-level requests of
\* the block the image stands in (heading style, bullets) cover it with the
\* rest of the block.
C12_NoTextStyleOverImage ==
    \A m \in Images :
        /\ ImageDegrades(m)
        /\ \A k \in Overlapping(m) :
               /\ requests[k].req \in {"UpdateParagraphStyle",
                                        "CreateParagraphBullets"}
               /\ doc[reqNode[k]].kind \in {"Heading", "Paragraph"}
               /\ reqNode[k] \in Ancestors(doc, m)

\* Images in a heading, in a list item, in bold text and in a link have
\* been written, one of them with an emphasised word and one with another
\* image in its alt text.
C12_Witness ==
    /\ Done
    /\ doc = DocImages
    /\ \E h, i, e, l \in Images :
          /\ doc[Parent(doc, h)].kind = "Heading"
          /\ Written(h) = <<91, 108, 111, 103, 111, 93>>
          /\ doc[Parent(doc, Parent(doc, i))].kind = "ListItem"
          /\ doc[Parent(doc, e)].kind = "Emphasis"
          /\ Written(e) = <<91, 98, 100, 93>>
          /\ doc[Parent(doc, l)].kind = "Link"
          /\ Descendants(l) # {}
    /\ \E k \in Reqs : requests[k].req = "CreateParagraphBullets"


(***************************************************************************)
(* C13.  Parse is deterministic: two runs on the same input and baseIndex  *)
(* return the same PlainText and the same requests in the same order,      *)
(* whatever calls ran before them.                                         *)
(***************************************************************************)
Result(c) ==
    [plainText |-> CallState(c).plainText, requests |-> CallState(c).requests]

SameInput(c, e) ==
    /\ CallState(c).doc = CallState(e).doc
    /\ CallState(c).baseIndex = CallState(e).baseIndex

SamePlace(c, e) ==
    /\ CallState(c).n = CallState(e).n
    /\ CallState(c).entering = CallState(e).entering
    /\ CallState(c).pc = CallState(e).pc

\* Two calls on the same input, each run in one piece (not suspended in
\* mid-run), whatever ran before them: at the same place of the walk they
\* hold the same text and the same requests, and once both have returned
\* their results are identical.
C13_SameInputSameResult ==
    \A c, e \in Calls \ preempted :
        SameInput(c, e) /\ SamePlace(c, e) =>
            /\ CallState(c) = CallState(e)
            /\ Returned(c) => Result(c) = Result(e)

\* Three calls one after the other, call 2 the last: it ran after a call
\* with its own input and after a call with another document.
C13_Witness ==
    /\ preempted = {}
    /\ \A c \in Calls : Returned(c)
    /\ call = 2
    /\ SameInput(1, 2)
    /\ CallState(3).doc # CallState(2).doc
    /\ Result(2) = Result(1)
    /\ Len(Result(2).requests) > 1

(***************************************************************************)
(* C16.  Two Parse calls with interleaved steps: each returns the          *)
(* PlainText and the requests it returns when it runs alone.               *)
(***************************************************************************)
C16_InterleavedAsAlone ==
    \A c \in preempted :
        Returned(c) /\ Returned(1) /\ SameInput(c, 1) =>
            Result(c) = Result(1)

\* Calls 2 and 3, on different documents, were both suspended in mid-run
\* with the other one running, and call 2 returned what call 1 did alone.
C16_Witness ==
    /\ preempted = {2, 3}
    /\ \A c \in Calls : Returned(c)
    /\ CallState(3).doc # CallState(2).doc
    /\ SameInput(1, 2)
    /\ Result(2) = Result(1)
    /\ Len(Result(2).requests) > 1
    /\ Len(Result(3).requests) > 1


(***************************************************************************)
(* C14.  The requests are in traversal order: the block-level request of   *)
(* a block (heading style, bullets of a list paragraph) comes after every  *)
(* text-style request with a range inside that block.                      *)
(***************************************************************************)
BlockReqs ==
    {k \in Reqs : requests[k].req \in {"UpdateParagraphStyle",
                                        "CreateParagraphBullets"}}

TextReqs == {k \in Reqs : requests[k].req = "UpdateTextStyle"}

Inside(j, k) ==
    /\ requests[k].start <= requests[j].start
    /\ requests[j].end <= requests[k].end

\* In every state of the walk: a text-style request inside a block's range
\* is in the list before the block's request, the text-style requests are
\* in the order of their text, and whatever follows a block's request
\* starts at or after the block's end.
C14_BlockRequestAfterInline ==
    /\ \A k \in BlockReqs : \A j \in TextReqs : Inside(j, k) => j < k
    /\ \A j, k \in TextReqs :
           j < k => requests[j].start <= requests[k].start
    /\ \A k \in BlockReqs : \A j \in Reqs :
           k < j => requests[k].end <= requests[j].start

\* A heading with italic and code text and list paragraphs with bold, link
\* and strikethrough text: every block request has text requests inside it.
C14_Witness ==
    /\ Done
    /\ doc = DocStyledBlocks
    /\ Cardinality(BlockReqs) = 3
    /\ \A k \in BlockReqs : \E j \in TextReqs : Inside(j, k) /\ j < k
    /\ \E k \in BlockReqs : \E j \in TextReqs : k < j


(***************************************************************************)
(* C15.  The cursor counts code points, not bytes: current() is baseIndex  *)
(* plus the number of code points written so far (the glyphs of a          *)
(* thematic break, text outside ASCII).                                    *)
(***************************************************************************)
C15_CursorCountsCodePoints ==
    currentIndex(baseIndex, buf) = baseIndex + RuneCount(buf)

(***************************************************************************)
(* C17.  The list context is a stack: entering a List pushes its ordered   *)
(* flag and leaving it pops it, so that after a nested list the enclosing  *)
(* list is active again (a later paragraph of the outer list gets a bullet *)
(* with the outer list's flag) and no list is active once the outermost    *)
(* list is left.                                                           *)
(***************************************************************************)
\* The lists entered and not yet left when the walker is called on node m.
ActiveLists(m) == {a \in Ancestors(doc, m) : doc[a].kind = "List"}

\* The innermost of them: in pre-order the deepest ancestor comes last.
InnermostList(m) == CHOOSE a \in ActiveLists(m) : \A o \in ActiveLists(m) : o <= a

\* The lists active between two callbacks: the walker is about to be
\* called on node n, which it has entered already if entering is false.
ActiveNow ==
    ActiveLists(n) \cup (IF doc[n].kind = "List" /\ ~entering THEN {n} ELSE {})

C17_ListContextIsStack ==
    /\ pc = "walk" =>
          /\ inList <=> ActiveNow # {}
          /\ ActiveNow # {} =>
                 listOrdered =
                     doc[CHOOSE a \in ActiveNow : \A o \in ActiveNow : o <= a].ordered
    /\ pc \in {"ret", "done"} => ~inList
    /\ \A m \in Nodes :
           doc[m].kind = "Paragraph" /\ Left(m) /\ ActiveLists(m) # {} =>
               \E k \in ReqsOf(m) :
                   /\ requests[k].req = "CreateParagraphBullets"
                   /\ requests[k].style =
                          BulletPreset(doc[InnermostList(m)].ordered)


(***************************************************************************)
(* C18.  Code is copied verbatim and styled as code only: the code request *)
(* covers exactly the raw text copied, the block forms get a newline after *)
(* it, and no bold, italic, strikethrough or link request lies over text   *)
(* inside code, also for a code span inside emphasis, strikethrough or a   *)
(* link.                                                                   *)
(***************************************************************************)
CodeNodes ==
    {m \in Nodes : doc[m].kind \in {"CodeSpan", "FencedCodeBlock", "CodeBlock"}
                   /\ Left(m)}

\* The raw text of a code node: the text children of a span, the lines of
\* a block.
RawCode(m) ==
    IF doc[m].kind = "CodeSpan" THEN ChildText(doc, m, m + 1) ELSE doc[m].val

IsCodeReq(k) ==
    /\ requests[k].req = "UpdateTextStyle"
    /\ requests[k].fields = "weightedFontFamily"

C18_CodeVerbatimAndOnlyCode ==
    \A m \in CodeNodes :
        /\ Written(m) = RawCode(m)
                        \o (IF doc[m].kind = "CodeSpan" THEN <<>> ELSE NL)
        /\ \A j \in Descendants(m) : ~Entered(j)
        /\ \A k \in ReqsOf(m) :
               /\ IsCodeReq(k)
               /\ requests[k].start = visit[m].in
               /\ requests[k].end = visit[m].in + Len(RawCode(m))
        /\ Cardinality(ReqsOf(m)) = (IF RawCode(m) = <<>> THEN 0 ELSE 1)
        /\ \A k \in Overlapping(m) \ ReqsOf(m) :
               requests[k].fields
                   \notin {"bold", "italic", "strikethrough", "link"}

\* Code spans in bold, struck, linked and italic text, a code span in a
\* heading, and both block forms have been written.
C18_Witness ==
    /\ Done
    /\ doc = DocCodeInside
    /\ \A kind \in {"Emphasis", "Strikethrough", "Link"} :
           \E m \in CodeNodes :
               /\ doc[Parent(doc, m)].kind = kind
               /\ Cardinality(ReqsOf(m)) = 1
    /\ \E m \in CodeNodes : doc[m].kind = "FencedCodeBlock"
                            /\ Written(m) = <<102, 10, 10>>
    /\ \E m \in CodeNodes : doc[m].kind = "CodeBlock"
                            /\ Written(m) = <<103, 10, 10>>
    /\ \E k \in Reqs : requests[k].fields = "italic"


(***************************************************************************)
(* C20.  The write cursor never decreases over a step of the walk (enter   *)
(* or exit of a node): the step leaves what was written in place, and the  *)
(* cursor changes only by the length of the text the step appends, a       *)
(* length in characters as everywhere in the ranges (C15).                 *)
(***************************************************************************)
\* What a step appends to the buffer.
Appended == SubSeq(buf', Len(buf) + 1, Len(buf'))

C20_CursorMovesByAppendedLength ==
    [][LET before == currentIndex(baseIndex, buf)
           after == currentIndex(baseIndex', buf')
       IN  /\ after >= before
           /\ Len(buf') >= Len(buf)
           /\ SubSeq(buf', 1, Len(buf)) = buf
           /\ after - before = RuneCount(Appended)]_vars


(***************************************************************************)
(* C21.  Ranges are relative to the base index: on the same input, Parse   *)
(* with base index b returns the PlainText of Parse with base index 1 and  *)
(* the same requests, every StartIndex and EndIndex moved by b - 1; no     *)
(* request appears or disappears with the base.                            *)
(***************************************************************************)
Shifted(reqs, delta) ==
    [k \in 1..Len(reqs) |->
        [reqs[k] EXCEPT !.start = @ + delta, !.end = @ + delta]]

SameDoc(c, e) == CallState(c).doc = CallState(e).doc

\* Two calls on the same document: at the same place of the walk they hold
\* the same text, and the requests of one are the requests of the other
\* moved by the difference of the base indexes; so are the results.
C21_RangesShiftWithBase ==
    \A c, e \in Calls :
        SameDoc(c, e) /\ SamePlace(c, e) =>
            LET delta == CallState(c).baseIndex - CallState(e).baseIndex IN
            /\ CallState(c).buf = CallState(e).buf
            /\ CallState(c).plainText = CallState(e).plainText
            /\ CallState(c).requests = Shifted(CallState(e).requests, delta)

\* Calls 2 and 3 have returned, on the same document, call 3 with base
\* index 1 and call 2 with a larger one, with several requests each.
C21_Witness ==
    /\ Returned(2) /\ Returned(3)
    /\ SameDoc(2, 3)
    /\ CallState(3).baseIndex = 1
    /\ CallState(2).baseIndex > 1
    /\ Len(CallState(2).requests) > 1
    /\ CallState(2).requests[1].start = CallState(3).requests[1].start
                                        + CallState(2).baseIndex - 1
    /\ CallState(2).plainText = CallState(3).plainText
    /\ CallState(2).plainText # <<>>


(***************************************************************************)
(* C22.  Truncating the extracted text never splits a multi-byte           *)
(* character: for maxBytes > 0 docsPlainText returns a prefix of the       *)
(* whole text, at most maxBytes bytes long, ending where a character       *)
(* ends; for maxBytes <= 0 it returns the whole text.                      *)
(***************************************************************************)
WholeText == ContentText(gdoc.content, 1)

IsPrefix(s, t) == Len(s) <= Len(t) /\ SubSeq(t, 1, Len(s)) = s

\* A UTF-8 continuation byte (10xxxxxx).
IsContinuation(b) == b \div 64 = 2

\* Cutting t after its first k bytes cuts between two characters.
OnCharacterBoundary(t, k) == k >= Len(t) \/ ~IsContinuation(t[k + 1])

C22_TruncationKeepsCharacters ==
    DocsDone =>
        IF maxBytes <= 0
        THEN text = WholeText
        ELSE /\ IsPrefix(text, WholeText)
             /\ Len(text) <= maxBytes
             /\ OnCharacterBoundary(WholeText, Len(text))


(***************************************************************************)
(* C23.  In the batch of the docs update command the InsertText request   *)
(* is the last request and its index is at least 1 (an index below 1 is   *)
(* replaced by 1); with --replace-all a DeleteContentRange over            *)
(* [1, endIndex) precedes it exactly when the document's end index is      *)
(* above 1, without it the batch is the insert alone; no batch is sent     *)
(* when the content is empty.                                              *)
(***************************************************************************)
\* The content the command was given, by --content or by the file.
GivenContent ==
    IF cmd.ContentFile # <<>> THEN cmd.file.data ELSE cmd.Content

C23_InsertLastAfterOptionalDelete ==
    /\ Len(batches) <= 1
    /\ GivenContent = <<>> => batches = <<>>
    /\ \A i \in 1..Len(batches) :
           LET b == batches[i]
               last == b[Len(b)]
               endIndex == getDocEndIndex(cmd.get)
           IN  /\ Len(b) >= 1
               /\ last.req = "InsertText"
               /\ last.text = GivenContent
               /\ last.index >= 1
               /\ last.index = (IF cmd.InsertAt < 1 THEN 1 ELSE cmd.InsertAt)
               /\ \A k \in 1..(Len(b) - 1) : b[k].req # "InsertText"
               /\ IF cmd.ReplaceAll /\ endIndex > 1
                  THEN b = <<DeleteContentRange(1, endIndex), last>>
                  ELSE b = <<last>>

\* A batch was sent for --replace-all --insert-at -1 on a document that
\* ends at index 12: the delete over [1, 11), then the insert at index 1.
C23_Witness ==
    /\ updPc = "done"
    /\ cmd.ReplaceAll
    /\ cmd.InsertAt = -1
    /\ cmd.get.endIndexes = <<1, 7, 12>>
    /\ batches = << <<DeleteContentRange(1, 11), InsertText(<<121, 10>>, 1)>> >>

\* The insert alone, at the index given, for --replace-all on a document
\* whose last element ends at index 2 (end index 1: nothing to delete).
C23_WitnessInsertOnly ==
    /\ updPc = "done"
    /\ cmd.ReplaceAll
    /\ cmd.get.endIndexes = <<2>>
    /\ batches = << <<InsertText(<<120>>, MaxInsertAt)>> >>

=============================================================================
